---- MODULE Spec2Model ----
(***************************************************************************)
(* Design editor of the solar layout application (DesignEditorPage and     *)
(* FieldSegmentLayer) with the planar layout geometry engine it calls.     *)
(*                                                                         *)
(* Units.  Geographic coordinates are integers in thousandths of a foot    *)
(* (a point is <<lat, lng>>).  Container coordinates are whole pixels, as  *)
(* Leaflet rounds them; engine-internal planar coordinates are             *)
(* thousandths of a pixel.  Areas are tenths of a square foot, nameplate   *)
(* is in watts (kW * 1000).                                                *)
(***************************************************************************)
EXTENDS Integers, Sequences, FiniteSets, TLC

\* ------------------------------------------------------------- arithmetic

Abs(n) == IF n < 0 THEN -n ELSE n

Sgn(n) == IF n < 0 THEN -1 ELSE IF n = 0 THEN 0 ELSE 1

Max(a, b) == IF a >= b THEN a ELSE b

Min(a, b) == IF a <= b THEN a ELSE b

\* Math.round: the nearest integer, halves upwards.  num / den, den > 0.
MathRound(num, den) == (2 * num + den) \div (2 * den)

RECURSIVE GCD(_, _)
GCD(a, b) == IF b = 0 THEN Abs(a) ELSE GCD(Abs(b), Abs(a) % Abs(b))

\* num / den to the nearest integer (fixed-point division), den # 0.
DivRound(num, den) ==
    IF den < 0 THEN MathRound(-num, -den) ELSE MathRound(num, den)

RECURSIVE SqrtSearch(_, _, _)
SqrtSearch(n, lo, hi) ==
    IF lo >= hi THEN lo
    ELSE LET mid == (lo + hi + 1) \div 2
         IN  IF mid * mid <= n THEN SqrtSearch(n, mid, hi)
             ELSE SqrtSearch(n, lo, mid - 1)

\* floor(sqrt(n)) for 0 <= n < 2^31.
ISqrt(n) == SqrtSearch(n, 0, Min(n, 46340))

\* The sign of a * sqrt(n) + b for integers a, b and n > 0, exactly.
SurdSign(a, b, n) ==
    IF a = 0 THEN Sgn(b)
    ELSE IF b = 0 THEN Sgn(a)
    ELSE IF Sgn(a) = Sgn(b) THEN Sgn(a)
    ELSE LET g == GCD(a, b)
             p == (a \div g) * (a \div g) * n
             q == (b \div g) * (b \div g)
         IN  IF p = q THEN 0
             ELSE IF p > q THEN Sgn(a) ELSE Sgn(b)

\* The sum of the first k elements of a sequence, and of all of them.
RECURSIVE SumUpTo(_, _)
SumUpTo(s, k) == IF k = 0 THEN 0 ELSE s[k] + SumUpTo(s, k - 1)

SeqSum(s) == SumUpTo(s, Len(s))

SeqMin(s) == CHOOSE v \in {s[k] : k \in 1..Len(s)} :
                \A w \in {s[k] : k \in 1..Len(s)} : v <= w

SeqMax(s) == CHOOSE v \in {s[k] : k \in 1..Len(s)} :
                \A w \in {s[k] : k \in 1..Len(s)} : v >= w

\* The successor index on a closed ring of n vertices.
Nxt(k, n) == (k % n) + 1

\* ------------------------------------------------- map projection (Leaflet)

\* Pixels per two feet at a zoom level: every zoom step doubles the scale.
RECURSIVE ZoomScale(_)
ZoomScale(z) == IF z = 0 THEN 1 ELSE 2 * ZoomScale(z - 1)

\* map.latLngToContainerPoint: the projected point, rounded to whole pixels,
\* relative to the container origin.  x grows with lng, y falls with lat.
latLngToContainerPoint(p, map) ==
    << MathRound(p[2] * ZoomScale(map.zoom), 2000) - map.panX,
       MathRound((-p[1]) * ZoomScale(map.zoom), 2000) - map.panY >>

\* map.containerPointToLatLng of a planar point given in thousandths of a pixel.
containerPointToLatLng(q, map) ==
    << DivRound((-(q[2] + 1000 * map.panY)) * 2, ZoomScale(map.zoom)),
       DivRound((q[1] + 1000 * map.panX) * 2, ZoomScale(map.zoom)) >>

ProjectPolygon(points, map) ==
    [k \in 1..Len(points) |-> latLngToContainerPoint(points[k], map)]

UnprojectPolygon(poly, map) ==
    [k \in 1..Len(poly) |-> containerPointToLatLng(poly[k], map)]

\* A polygon of whole pixels in thousandths of a pixel.
ToMilli(poly) == [k \in 1..Len(poly) |-> <<1000 * poly[k][1], 1000 * poly[k][2]>>]

\* --------------------------------------------------------------- geometry

\* Twice the signed area of a closed polygon (shoelace sum), taken relative
\* to the first vertex.
Shoelace(poly) ==
    LET n == Len(poly)
        x(k) == poly[k][1] - poly[1][1]
        y(k) == poly[k][2] - poly[1][2]
    IN  IF n < 3 THEN 0
        ELSE SeqSum([k \in 1..n |-> x(k) * y(Nxt(k, n)) - x(Nxt(k, n)) * y(k)])

\* Area Calculator (4.2): unsigned area in tenths of a square foot; fewer than
\* 3 points give 0.  One pixel is 2 / ZoomScale feet.
calculatePolygonArea(points, map) ==
    IF Len(points) < 3 THEN 0
    ELSE DivRound(Abs(Shoelace(ProjectPolygon(points, map))) * 20,
                  ZoomScale(map.zoom) * ZoomScale(map.zoom))

\* getMidpoint: the arithmetic mean of the endpoints in geographic space.
getMidpoint(p1, p2) == << (p1[1] + p2[1]) \div 2, (p1[2] + p2[2]) \div 2 >>

\* A planar point (x + ux / sqrt(n), y + uy / sqrt(n)); an integer point has
\* ux = uy = 0.
PlanarPoint(x, y) == [x |-> x, y |-> y, ux |-> 0, uy |-> 0, n |-> 1]

\* Sign of the cross product (b - a) x (pt - a).
CrossSign(pt, a, b) ==
    SurdSign((b[1] - a[1]) * (pt.y - a[2]) - (pt.x - a[1]) * (b[2] - a[2]),
             (b[1] - a[1]) * pt.uy - pt.ux * (b[2] - a[2]),
             pt.n)

\* Sign of the dot product (pt - a) . (b - a).
DotSign(pt, a, b) ==
    SurdSign((pt.x - a[1]) * (b[1] - a[1]) + (pt.y - a[2]) * (b[2] - a[2]),
             pt.ux * (b[1] - a[1]) + pt.uy * (b[2] - a[2]),
             pt.n)

\* The vertex v lies strictly above the point (v.y > pt.y).
VertexAbove(v, pt) == SurdSign(v[2] - pt.y, -pt.uy, pt.n) > 0

OnEdge(pt, a, b) ==
    /\ CrossSign(pt, a, b) = 0
    /\ DotSign(pt, a, b) >= 0
    /\ DotSign(pt, b, a) >= 0

OnBoundary(pt, polygon) ==
    \E k \in 1..Len(polygon) : OnEdge(pt, polygon[k], polygon[Nxt(k, Len(polygon))])

\* The edge a -> b crosses the ray from pt towards +x.
EdgeCrosses(pt, a, b) ==
    /\ VertexAbove(a, pt) # VertexAbove(b, pt)
    /\ IF VertexAbove(b, pt) THEN CrossSign(pt, a, b) > 0
                             ELSE CrossSign(pt, a, b) < 0

\* Point-in-Polygon Tester (4.3): crossing number, even-odd; a point on the
\* boundary counts as outside.
isPointInPolygon(pt, polygon) ==
    /\ Len(polygon) >= 3
    /\ ~OnBoundary(pt, polygon)
    /\ Cardinality({k \in 1..Len(polygon) :
            EdgeCrosses(pt, polygon[k], polygon[Nxt(k, Len(polygon))])}) % 2 = 1

\* A length in thousandths of a foot as thousandths of a pixel at the map's
\* zoom: one foot is ZoomScale / 2 pixels.
FeetToPixels(len, map) == DivRound(len * ZoomScale(map.zoom), 2)

\* ------------------------------------------- Polygon Offset Engine (4.5)

\* Inward normal of edge k (from vertex k to its successor) of a polygon of
\* winding w: the edge vector turned 90 degrees towards the interior.
EdgeNormal(poly, k, w) ==
    LET a == poly[k]
        b == poly[Nxt(k, Len(poly))]
    IN  << w * (-(b[2] - a[2])), w * (b[1] - a[1]) >>

\* Length of a normal in thousandths.
NormalLength(nv) == ISqrt((nv[1] * nv[1] + nv[2] * nv[2]) * 1000000)

\* Right-hand side, in thousandths, of the line of edge k moved inwards by d.
OffsetLine(poly, k, w, d) ==
    LET nv == EdgeNormal(poly, k, w)
    IN  (nv[1] * poly[k][1] + nv[2] * poly[k][2]) * 1000
            + DivRound(d * NormalLength(nv), 1000)

\* New vertex k: the intersection of the offset lines of the two edges that
\* meet at vertex k (miter join).  Parallel edges have no intersection: the
\* vertex is moved by d along the normal of the edge that has one.
OffsetVertex(poly, k, w, d) ==
    LET n    == Len(poly)
        j    == IF k = 1 THEN n ELSE k - 1
        n1   == EdgeNormal(poly, j, w)
        n2   == EdgeNormal(poly, k, w)
        c1   == OffsetLine(poly, j, w, d)
        c2   == OffsetLine(poly, k, w, d)
        det  == n1[1] * n2[2] - n1[2] * n2[1]
        nv   == IF n2 # <<0, 0>> THEN n2 ELSE n1
    IN  IF det # 0
        THEN << DivRound(c1 * n2[2] - c2 * n1[2], det),
                DivRound(n1[1] * c2 - n2[1] * c1, det) >>
        ELSE IF nv = <<0, 0>>
        THEN << 1000 * poly[k][1], 1000 * poly[k][2] >>
        ELSE << 1000 * poly[k][1] + DivRound(d * nv[1] * 1000, NormalLength(nv)),
                1000 * poly[k][2] + DivRound(d * nv[2] * 1000, NormalLength(nv)) >>

\* Edge k of the offset polygon still runs the way edge k of the boundary
\* does; an edge that has turned around or shrunk to nothing means the offset
\* has eaten through the shape there (the clamp rule of the joins).
EdgeKept(poly, off, k) ==
    \/ poly[Nxt(k, Len(poly))] = poly[k]
    \/ (off[Nxt(k, Len(poly))][1] - off[k][1]) * (poly[Nxt(k, Len(poly))][1] - poly[k][1])
         + (off[Nxt(k, Len(poly))][2] - off[k][2]) * (poly[Nxt(k, Len(poly))][2] - poly[k][2])
       > 0

\* An offset that is handed on whatever has become of it; the engine does not
\* use it.
InvertedKept(poly, off, w) == off

\* The offset polygon, or the empty polygon when the offset has eaten through
\* the shape: an edge is lost, or the signed area flips sign or falls to zero.
OffsetResult(poly, off, w) ==
    IF (\E k \in 1..Len(poly) : ~EdgeKept(poly, off, k)) \/ Sgn(Shoelace(off)) # w
    THEN << >>
    ELSE off

\* inset(boundary, distance) on a polygon of whole pixels of winding w, d in
\* thousandths of a pixel; the result is in thousandths of a pixel.  A
\* distance of 0 returns the boundary unchanged.
InsetOfWinding(poly, d, w) ==
    IF Len(poly) < 3 \/ w = 0 THEN << >>
    ELSE IF d = 0 THEN ToMilli(poly)
    ELSE OffsetResult(poly, [k \in 1..Len(poly) |-> OffsetVertex(poly, k, w, d)], w)

InsetPlanar(poly, d) == InsetOfWinding(poly, d, Sgn(Shoelace(poly)))

\* calculateInsetPolygon(points, setback, map): the buildable-region preview
\* in geographic coordinates.
calculateInsetPolygon(points, setback, map) ==
    UnprojectPolygon(
        InsetPlanar(ProjectPolygon(points, map), FeetToPixels(setback, map)), map)

\* --------------------------------------------- Module Layout Packer (4.6)

\* cos and sin in thousandths, for the angles the bounded inputs use.
CosMilli(deg) ==
    CASE deg % 360 = 0   -> 1000
      [] deg % 360 = 10  -> 985
      [] deg % 360 = 90  -> 0
      [] deg % 360 = 180 -> -1000
      [] deg % 360 = 270 -> 0

SinMilli(deg) ==
    CASE deg % 360 = 0   -> 0
      [] deg % 360 = 10  -> 174
      [] deg % 360 = 90  -> 1000
      [] deg % 360 = 180 -> 0
      [] deg % 360 = 270 -> -1000

\* A planar point turned by deg degrees about the origin.
Rotate(q, deg) ==
    << DivRound(q[1] * CosMilli(deg) - q[2] * SinMilli(deg), 1000),
       DivRound(q[1] * SinMilli(deg) + q[2] * CosMilli(deg), 1000) >>

RotatePolygon(poly, deg) == [k \in 1..Len(poly) |-> Rotate(poly[k], deg)]

\* The smallest grid pitch the iteration is allowed to count with, in
\* thousandths of a pixel.
PitchFloor == 500

EmptyLayout(azimuth) ==
    [layout |-> << >>, count |-> 0, nameplate |-> 0, azimuth |-> azimuth % 360]

\* Step 4: the module's extent along a row and its depth across rows, swapped
\* by the orientation (thousandths of a foot).
ModuleAcross(segment, module) ==
    IF segment.orientation = "Portrait" THEN module.width ELSE module.length

ModuleDepth(segment, module) ==
    IF segment.orientation = "Portrait" THEN module.length ELSE module.width

\* Planar depth of one module: a tilted module covers depth * cos(tilt).
FootprintDepth(segment, module) ==
    IF segment.rackingType = "Fixed Tilt"
    THEN DivRound(ModuleDepth(segment, module) * CosMilli(segment.moduleTilt), 1000)
    ELSE ModuleDepth(segment, module)

\* Step 5: the clearance a tilted row needs so as not to shade the row behind.
ShadingClearance(segment, module) ==
    IF segment.rackingType = "Fixed Tilt"
    THEN DivRound(ModuleDepth(segment, module) * SinMilli(segment.moduleTilt), 1000)
    ELSE 0

\* Step 6: the span of one frame of frameSizeUp x frameSizeWide modules.
FrameWidth(segment, module) ==
    segment.frameSizeWide * ModuleAcross(segment, module)
        + (segment.frameSizeWide - 1) * segment.moduleSpacing

FrameDepth(segment, module) ==
    segment.frameSizeUp * FootprintDepth(segment, module)
        + (segment.frameSizeUp - 1) * segment.moduleSpacing

\* Steps 5 and 6: centre-to-centre spacing of frames along and across rows.
ColumnPitch(segment, module) ==
    FrameWidth(segment, module) + segment.moduleSpacing + segment.frameSpacing

RowPitch(segment, module) ==
    FrameDepth(segment, module) + ShadingClearance(segment, module)
        + segment.rowSpacing

\* A count of grid positions that trusts any positive pitch; the packer does
\* not use it.
StepsOfAnyPitch(extent, pitch) == extent \div Max(pitch, 1) + 1

\* Step 7: the number of grid positions tried along an axis of the given
\* extent: capped by the extent over the pitch, the pitch no smaller than
\* PitchFloor.
GridSteps(extent, pitch) == extent \div Max(pitch, PitchFloor) + 1

\* Step 7: how many frames of the given span fit, at the given pitch.
FramesFit(extent, span, pitch) ==
    IF pitch <= 0 \/ span <= 0 \/ span > extent THEN 0
    ELSE (extent - span) \div pitch + 1

\* Step 7: where the first frame starts on an axis [lo, lo + extent]: the
\* leftover margin goes to the far side (near), to the near side (far) or is
\* split evenly.
AlignStart(lo, extent, span, pitch, side) ==
    LET fit      == FramesFit(extent, span, pitch)
        used     == IF fit = 0 THEN 0 ELSE (fit - 1) * pitch + span
        leftover == extent - used
    IN  CASE side = "near" -> lo
          [] side = "far"  -> lo + leftover
          [] OTHER         -> lo + leftover \div 2

AlignX(alignment) ==
    CASE alignment = "left" -> "near" [] alignment = "right" -> "far" [] OTHER -> "mid"

AlignY(alignment) ==
    CASE alignment = "top" -> "near" [] alignment = "bottom" -> "far" [] OTHER -> "mid"

\* The extent of a polygon along an axis (1 = x, 2 = y): its least coordinate
\* and the width of its bounding box.
AxisMin(poly, axis) == SeqMin([k \in 1..Len(poly) |-> poly[k][axis]])

AxisExtent(poly, axis) ==
    SeqMax([k \in 1..Len(poly) |-> poly[k][axis]]) - AxisMin(poly, axis)

\* Steps 3 to 7 on a non-empty buildable region and its copy turned by the
\* azimuth: bounding box, pitches, spans and start anchor, all in thousandths
\* of a pixel.
GridOn(region, turned, segment, module, map) ==
    [ region   |-> region,
      colPitch |-> FeetToPixels(ColumnPitch(segment, module), map),
      rowPitch |-> FeetToPixels(RowPitch(segment, module), map),
      cols     |-> GridSteps(AxisExtent(turned, 1),
                             FeetToPixels(ColumnPitch(segment, module), map)),
      rows     |-> GridSteps(AxisExtent(turned, 2),
                             FeetToPixels(RowPitch(segment, module), map)),
      startX   |-> AlignStart(AxisMin(turned, 1), AxisExtent(turned, 1),
                              FeetToPixels(FrameWidth(segment, module), map),
                              FeetToPixels(ColumnPitch(segment, module), map),
                              AlignX(segment.alignment)),
      startY   |-> AlignStart(AxisMin(turned, 2), AxisExtent(turned, 2),
                              FeetToPixels(FrameDepth(segment, module), map),
                              FeetToPixels(RowPitch(segment, module), map),
                              AlignY(segment.alignment)),
      modW     |-> FeetToPixels(ModuleAcross(segment, module), map),
      modD     |-> FeetToPixels(FootprintDepth(segment, module), map),
      gap      |-> FeetToPixels(segment.moduleSpacing, map) ]

\* Step 3: the grid of a buildable region; an empty region has no grid.
GridOfRegion(region, segment, module, map) ==
    IF region = << >> THEN [region |-> << >>]
    ELSE GridOn(region, RotatePolygon(region, 360 - (segment.azimuth % 360)),
                segment, module, map)

\* The packing grid of one computation: step 2 (the buildable region is the
\* boundary inset by the setback) and then steps 3 to 7.
PackingGrid(segment, module, map) ==
    GridOfRegion(InsetPlanar(ProjectPolygon(segment.points, map),
                             FeetToPixels(segment.setback, map)),
                 segment, module, map)

\* Step 8: the corners of module (u, v) of the frame at grid position
\* (row, col), turned back into the planar frame.
ModuleCorners(grid, segment, row, col, u, v) ==
    LET x0 == grid.startX + col * grid.colPitch + v * (grid.modW + grid.gap)
        y0 == grid.startY + row * grid.rowPitch + u * (grid.modD + grid.gap)
    IN  RotatePolygon(<< <<x0, y0>>, <<x0 + grid.modW, y0>>,
                         <<x0 + grid.modW, y0 + grid.modD>>, <<x0, y0 + grid.modD>> >>,
                      segment.azimuth % 360)

\* A containment rule that lets a corner on the region's boundary count as
\* contained; the packer does not use it.
BoundaryCounts(corners, region) ==
    \A k \in 1..Len(corners) :
        \/ isPointInPolygon(PlanarPoint(corners[k][1], corners[k][2]), region)
        \/ OnBoundary(PlanarPoint(corners[k][1], corners[k][2]), region)

\* Step 9 for one footprint: every corner is inside the buildable region.
FootprintFits(corners, region) ==
    \A k \in 1..Len(corners) :
        isPointInPolygon(PlanarPoint(corners[k][1], corners[k][2]), region)

\* The footprints of the frame at grid position (row, col), in frame order;
\* empty when any of its modules does not fit (a partial frame is dropped whole).
FrameFootprints(grid, segment, row, col) ==
    LET up    == segment.frameSizeUp
        wide  == segment.frameSizeWide
        cell(k) == ModuleCorners(grid, segment, row, col,
                                 (k - 1) \div wide, (k - 1) % wide)
    IN  IF up < 1 \/ wide < 1 THEN << >>
        ELSE IF \A k \in 1..(up * wide) : FootprintFits(cell(k), grid.region)
        THEN [k \in 1..(up * wide) |-> cell(k)]
        ELSE << >>

\* Footprints of grid positions 0 .. pos - 1, rows first.
RECURSIVE FootprintsUpTo(_, _, _)
FootprintsUpTo(grid, segment, pos) ==
    IF pos = 0 THEN << >>
    ELSE FootprintsUpTo(grid, segment, pos - 1)
            \o FrameFootprints(grid, segment,
                               (pos - 1) \div grid.cols, (pos - 1) % grid.cols)

\* Step 10: the result for the surviving footprints, in geographic
\* coordinates; nameplate = count * wattage / 1000 kW, kept in watts.
LayoutOf(footprints, segment, module, map) ==
    [ layout    |-> [k \in 1..Len(footprints) |-> UnprojectPolygon(footprints[k], map)],
      count     |-> Len(footprints),
      nameplate |-> Len(footprints) * module.wattage,
      azimuth   |-> segment.azimuth % 360 ]

\* The input is degenerate or collapses: fewer than 3 boundary points, a
\* module without extent, or an empty buildable region.
Degenerate(grid, segment, module) ==
    \/ Len(segment.points) < 3
    \/ module.width <= 0 \/ module.length <= 0
    \/ grid.region = << >>

\* The packer iterates over no grid: the input is degenerate, or a computed
\* pitch is not positive.
NoIteration(grid, segment, module) ==
    \/ Degenerate(grid, segment, module)
    \/ grid.colPitch <= 0
    \/ grid.rowPitch <= 0

\* Steps 8 to 10 on a packing grid; a degenerate input or a pitch that is not
\* positive gives the empty layout without iterating.
LayoutOnGrid(grid, segment, module, map) ==
    IF NoIteration(grid, segment, module) THEN EmptyLayout(segment.azimuth)
    ELSE LayoutOf(FootprintsUpTo(grid, segment, grid.rows * grid.cols),
                  segment, module, map)

\* calculateAdvancedModuleLayout(segment, module, map).
calculateAdvancedModuleLayout(segment, module, map) ==
    LayoutOnGrid(PackingGrid(segment, module, map), segment, module, map)

\* ------------------------------------------------------- bounded inputs

\* Positions the user can click while drawing, and positions a vertex can be
\* dragged to (thousandths of a foot).
ClickPoints == { <<0, 0>>, <<0, 8000>>, <<7000, 8000>> }

\* The outlines the user traces when drawing: the triangle, either way round.
ClickPaths ==
    { << <<0, 0>>, <<0, 8000>>, <<7000, 8000>> >>,
      << <<0, 0>>, <<7000, 8000>>, <<0, 8000>> >> }

DragPoints == { <<7000, 0>>, <<3000, 4000>> }

\* Zoom levels and pan offsets the Leaflet map can be in.
Zooms == {0, 1}

Pans == {0, 3}

MapViews == [zoom : Zooms, panX : Pans, panY : {0}]

\* MapContainer zoom={19}: the view a freshly created map starts in.
DefaultView == [zoom |-> 1, panX |-> 0, panY |-> 0]

\* Most points of one drawing, most segments, most editing events, most
\* drawing events (start, stop, clear), most saves in flight.
MaxPts == 3

MaxSegments == 2

MaxEvents == 1

MaxDraws == 2

MaxInflight == 1

\* The module catalog the modules table returns.
Catalog ==
    << [id |-> "m1", width |-> 2000, length |-> 3000, wattage |-> 400] >>

\* new Date().toISOString(): the clock reading as text, one text per reading.
ToISOString(t) == <<"iso", t>>

\* The selectable map types that matter: one 2D map, and the 3D view.
MapTypes == {"maptiler-satellite", "maptalk-satellite"}

\* ------------------------------------------------------------- segments

\* A new segment that is born with a module and an area; handleStopDrawing
\* does not make one.
SegmentWithModule(id, points, n) ==
    [ id |-> id, points |-> points, area |-> 1, nameplate |-> 0,
      moduleCount |-> 0, azimuth |-> 180,
      description |-> <<"Field Segment", n>>,
      rackingType |-> "Fixed Tilt", moduleTilt |-> 10,
      orientation |-> "Portrait", rowSpacing |-> 2000, moduleSpacing |-> 41,
      setback |-> 0, surfaceHeight |-> 0, rackingHeight |-> 0,
      frameSizeUp |-> 1, frameSizeWide |-> 1, frameSpacing |-> 0,
      spanRise |-> 0, alignment |-> "center", moduleId |-> "m1" ]

\* handleStopDrawing's newSegment (no moduleId, no moduleLayout).
NewSegment(id, points, n) ==
    [ id |-> id, points |-> points, area |-> 0, nameplate |-> 0,
      moduleCount |-> 0, azimuth |-> 180,
      description |-> <<"Field Segment", n>>,
      rackingType |-> "Fixed Tilt", moduleTilt |-> 10,
      orientation |-> "Portrait", rowSpacing |-> 2000, moduleSpacing |-> 41,
      setback |-> 0, surfaceHeight |-> 0, rackingHeight |-> 0,
      frameSizeUp |-> 1, frameSizeWide |-> 1, frameSpacing |-> 0,
      spanRise |-> 0, alignment |-> "center" ]

\* { ...seg, ...updates }: the fields of updates replace or extend seg's.
Merge(seg, updates) ==
    [f \in (DOMAIN seg) \cup (DOMAIN updates) |->
        IF f \in DOMAIN updates THEN updates[f] ELSE seg[f]]

\* segment.moduleLayout?.length as a condition.
HasLayout(seg) ==
    IF "moduleLayout" \in DOMAIN seg THEN Len(seg.moduleLayout) > 0 ELSE FALSE

\* modules.find(m => m.id === segment.moduleId): the matches, first is found.
FindModule(modules, seg) ==
    IF "moduleId" \in DOMAIN seg
    THEN SelectSeq(modules, LAMBDA m : m.id = seg.moduleId)
    ELSE << >>

\* A segment with a layout result and an area stored on it.
WithLayout(seg, res, area) ==
    Merge(seg, [ area |-> area, moduleLayout |-> res.layout,
                 moduleCount |-> res.count, nameplate |-> res.nameplate ])

\* The boundary of the segment a saved design holds: a 7 ft by 8 ft rectangle.
StoredPoints == << <<0, 0>>, <<0, 8000>>, <<7000, 8000>>, <<7000, 0>> >>

\* A segment as a saved design holds it: module m1 assigned, the area and the
\* layout of an earlier session stored with it.
StoredBase ==
    Merge(NewSegment(ToISOString(0), StoredPoints, 1), [moduleId |-> "m1"])

StoredSegment ==
    WithLayout(StoredBase,
               calculateAdvancedModuleLayout(StoredBase, Catalog[1], DefaultView),
               calculatePolygonArea(StoredPoints, DefaultView))

\* A second segment of the saved design: a triangle with no module assigned,
\* its area stored with it.
PlainPoints == << <<0, 0>>, <<0, 8000>>, <<7000, 8000>> >>

PlainSegment ==
    Merge(NewSegment(ToISOString(1), PlainPoints, 2),
          [area |-> calculatePolygonArea(PlainPoints, DefaultView)])

\* design.field_segments of the designs that can be opened.
Designs == { << >>, << StoredSegment, PlainSegment >> }

\* ---------------------------------------------------------------- state

VARIABLES
    design,           \* the design prop: its field_segments as loaded
    isDrawing, drawingPoints, fieldSegments, selectedSegment, modules,
    selectedMapType,  \* DesignEditorPage's useState values
    mounted,          \* the page's mount effects have run
    fetching,         \* fetchModules is awaiting the modules table
    rendered,         \* the state values the last committed render closed over
    dirty,            \* a state update is waiting for the next render
    pending,          \* FieldSegmentLayers of the last commit whose effects are still to run
    layers,           \* segment id -> local state of its mounted FieldSegmentLayer
    map,              \* the Leaflet map's viewport (zoom, pan)
    clock,            \* the system clock's last reading
    inflight,         \* saves issued and not yet answered
    persisted,        \* field_segments of the design row in the store
    events,           \* editing events of the user so far
    draws,            \* drawing events of the user so far
    budget,           \* how many user events and saves in flight a behaviour may have
    issued,           \* observed segment id -> onUpdate calls of the effect's no-module branches
    packer,           \* a run of the layout packer: inputs, position, result
    label,            \* a placement of a length label: inputs, candidate, result
    last              \* the operation that ran last

vars == << design, isDrawing, drawingPoints, fieldSegments, selectedSegment,
           modules, selectedMapType, mounted, fetching, rendered, dirty,
           pending, layers, map, clock, inflight, persisted, events, draws,
           last, packer, label, budget, issued >>

\* selectedSegment: null is << >>, a segment seg is << seg >>.
Null == << >>

NoOp == [op |-> "none", id |-> << >>, index |-> 0, branch |-> "none"]

Snapshot ==
    [ fieldSegments |-> fieldSegments, selectedSegment |-> selectedSegment,
      isDrawing |-> isDrawing, drawingPoints |-> drawingPoints,
      modules |-> modules, selectedMapType |-> selectedMapType ]

\* const isMaptalksView = selectedMapType === 'maptalk-satellite', as rendered.
isMaptalksView == rendered.selectedMapType = "maptalk-satellite"

\* No run of the packer and no placement of a label is under way.
NoRun ==
    [ pc |-> "off", segment |-> << >>, module |-> << >>, view |-> << >>,
      grid |-> << >>, pos |-> 0, footprints |-> << >>, result |-> << >> ]

NoLabel ==
    [ pc |-> "off", polygon |-> << >>, view |-> << >>, edge |-> 0,
      candidate |-> << >>, flipped |-> FALSE, position |-> << >> ]

\* useState's initial values, before the mount effects, for a design.
EditorFresh ==
    /\ isDrawing = FALSE
    /\ drawingPoints = << >>
    /\ fieldSegments = << >>
    /\ selectedSegment = Null
    /\ modules = << >>
    /\ selectedMapType = "maptiler-satellite"
    /\ mounted = FALSE
    /\ fetching = FALSE
    /\ rendered = [ fieldSegments |-> << >>, selectedSegment |-> Null,
                    isDrawing |-> FALSE, drawingPoints |-> << >>,
                    modules |-> << >>, selectedMapType |-> "maptiler-satellite" ]
    /\ dirty = FALSE
    /\ pending = << >>
    /\ layers = << >>
    /\ map = DefaultView
    /\ clock = 2
    /\ inflight = {}
    /\ persisted = design
    /\ events = 0
    /\ draws = 0
    /\ last = NoOp

\* The bounds of the editor's behaviours; no segment's updates are counted.
Init ==
    /\ design \in Designs
    /\ EditorFresh
    /\ budget = [events |-> MaxEvents, draws |-> MaxDraws, inflight |-> MaxInflight]
    /\ issued = << >>
    /\ packer = NoRun
    /\ label = NoLabel

\* --------------------------------------------------------------- saving

\* saveFieldSegments(segmentsToSave): the update request is sent; its answer
\* comes later.
CanSave(segmentsToSave) ==
    segmentsToSave \in inflight \/ Cardinality(inflight) < budget.inflight

saveFieldSegments(segmentsToSave) == inflight' = inflight \cup {segmentsToSave}

\* The store answers a save: the row now holds that list.
SaveComplete ==
    \E s \in inflight :
        /\ persisted' = s
        /\ inflight' = inflight \ {s}
        /\ UNCHANGED << issued, budget, packer, label, design, isDrawing, drawingPoints, fieldSegments,
                        selectedSegment, modules, selectedMapType, mounted,
                        fetching, rendered, dirty, pending, layers, map, clock,
                        events, draws, last >>

\* The store answers with an error, or the request throws: it is logged.
SaveError ==
    \E s \in inflight :
        /\ inflight' = inflight \ {s}
        /\ UNCHANGED << issued, budget, packer, label, design, isDrawing, drawingPoints, fieldSegments,
                        selectedSegment, modules, selectedMapType, mounted,
                        fetching, rendered, dirty, pending, layers, map, clock,
                        persisted, events, draws, last >>

\* ------------------------------------------------------ mount and render

\* The two mount effects: the design's segments are loaded into the state and
\* the modules are requested.
MountEffects ==
    /\ ~mounted
    /\ mounted' = TRUE
    /\ fieldSegments' = design
    /\ fetching' = TRUE
    /\ dirty' = TRUE
    /\ last' = [NoOp EXCEPT !.op = "mount"]
    /\ UNCHANGED << issued, budget, packer, label, design, isDrawing, drawingPoints, selectedSegment, modules,
                    selectedMapType, rendered, pending, layers, map, clock,
                    inflight, persisted, events, draws >>

\* fetchModules resolves: setModules(data || []), or the error is logged.
ModulesLoaded ==
    /\ fetching
    /\ fetching' = FALSE
    /\ \/ modules' = Catalog /\ dirty' = TRUE
       \/ UNCHANGED << modules, dirty >>
    /\ last' = [NoOp EXCEPT !.op = "modules"]
    /\ UNCHANGED << issued, budget, packer, label, design, isDrawing, drawingPoints, fieldSegments,
                    selectedSegment, selectedMapType, mounted, rendered,
                    pending, layers, map, clock, inflight, persisted, events, draws >>

SegmentIds(segments) == {segments[k].id : k \in 1..Len(segments)}

\* useState<LatLngTuple[]>([]) of a FieldSegmentLayer that has just mounted;
\* deps holds the dependencies the inset effect last ran with.
FreshLayer == [insetPolygon |-> << >>, deps |-> << >>]

\* A render of DesignEditorPage is committed: handlers and children now close
\* over the current state.  In a 2D view one FieldSegmentLayer per segment is
\* mounted (kept, by key, if it was), and since onUpdate is a new function
\* each render every layer's recompute effect is due again.  Coming back from
\* the 3D view creates a new map.
Render ==
    /\ mounted /\ dirty /\ pending = << >>
    /\ rendered' = Snapshot
    /\ dirty' = FALSE
    /\ IF selectedMapType = "maptalk-satellite"
       THEN /\ layers' = << >>
            /\ pending' = << >>
            /\ map' = map
       ELSE /\ layers' = [id \in SegmentIds(fieldSegments) |->
                            IF ~isMaptalksView /\ id \in DOMAIN layers
                            THEN layers[id] ELSE FreshLayer]
            /\ pending' = [k \in 1..Len(fieldSegments) |-> k]
            /\ map' = IF isMaptalksView THEN DefaultView ELSE map
    /\ last' = [NoOp EXCEPT !.op = "render"]
    /\ UNCHANGED << issued, budget, packer, label, design, isDrawing, drawingPoints, fieldSegments,
                    selectedSegment, modules, selectedMapType, mounted, fetching,
                    clock, inflight, persisted, events, draws >>

\* ------------------------------------------------------------ handlers

\* fieldSegments.map(seg => seg.id === id ? { ...seg, ...updates } : seg),
\* over the fieldSegments the handler closed over.
UpdatedSegments(id, updates) ==
    [k \in 1..Len(rendered.fieldSegments) |->
        IF rendered.fieldSegments[k].id = id
        THEN Merge(rendered.fieldSegments[k], updates)
        ELSE rendered.fieldSegments[k]]

\* updatedSegments.find(seg => seg.id === id) || null
FindSegment(segments, id) ==
    LET found == SelectSeq(segments, LAMBDA seg : seg.id = id)
    IN  IF found = << >> THEN Null ELSE << found[1] >>

\* A comparison that never finds the selected segment; the handlers do not
\* use it.
SelectionIgnored(id) == FALSE

\* selectedSegment?.id === id, for the selectedSegment closed over.
SelectedHasId(id) ==
    IF rendered.selectedSegment = Null THEN FALSE
    ELSE rendered.selectedSegment[1].id = id

\* setFieldSegments, saveFieldSegments and the selectedSegment refresh for the
\* list handleUpdateSegment has mapped.
CommitSegments(id, updatedSegments) ==
    /\ CanSave(updatedSegments)
    /\ fieldSegments' = updatedSegments
    /\ saveFieldSegments(updatedSegments)
    /\ selectedSegment' = IF SelectedHasId(id)
                          THEN FindSegment(updatedSegments, id)
                          ELSE selectedSegment
    /\ dirty' = TRUE

\* handleUpdateSegment(id, updates)
handleUpdateSegment(id, updates) ==
    CommitSegments(id, UpdatedSegments(id, updates))

\* A user event can be handled: the page is mounted, no effect flush is under
\* way, and the bound on events of its kind is not used up.
UserCan == mounted /\ pending = << >> /\ events < budget.events

DrawCan == mounted /\ pending = << >> /\ draws < budget.draws

\* handleStartDrawing
handleStartDrawing ==
    /\ DrawCan
    /\ draws' = draws + 1 /\ UNCHANGED events
    /\ IF isMaptalksView
       THEN /\ last' = [NoOp EXCEPT !.op = "start-refused"]
            /\ UNCHANGED << isDrawing, selectedSegment, drawingPoints, dirty >>
       ELSE /\ isDrawing' = TRUE
            /\ selectedSegment' = Null
            /\ drawingPoints' = << >>
            /\ dirty' = TRUE
            /\ last' = [NoOp EXCEPT !.op = "start"]
    /\ UNCHANGED << issued, budget, packer, label, design, fieldSegments, modules, selectedMapType, mounted,
                    fetching, rendered, pending, layers, map, clock, inflight,
                    persisted >>

\* The drawing follows one of the outlines so far.
OnPath(points) ==
    \E path \in ClickPaths :
        Len(points) <= Len(path) /\ SubSeq(path, 1, Len(points)) = points

\* MapDrawingLayer reports a click on the next position of an outline:
\* onPointsChange([...points, p]).  The layer is mounted only while drawing in
\* a 2D view.
AddDrawingPoint ==
    /\ mounted /\ pending = << >>
    /\ rendered.isDrawing /\ ~isMaptalksView
    /\ Len(rendered.drawingPoints) < MaxPts
    /\ \E p \in ClickPoints :
        /\ OnPath(Append(rendered.drawingPoints, p))
        /\ drawingPoints' = Append(rendered.drawingPoints, p)
    /\ dirty' = TRUE
    /\ last' = [NoOp EXCEPT !.op = "point"]
    /\ UNCHANGED << issued, budget, packer, label, design, isDrawing, fieldSegments, selectedSegment, modules,
                    selectedMapType, mounted, fetching, rendered, pending,
                    layers, map, clock, inflight, persisted, events, draws >>

\* A drawing of two points taken for a segment.
TwoPointsSuffice(points) == Len(points) > 1

\* The drawing is long enough to become a segment: drawingPoints.length > 2.
DrawingComplete(points) == Len(points) > 2

\* handleStopDrawing.  new Date() reads the clock: the last reading again, or
\* a later one.
handleStopDrawing ==
    /\ DrawCan
    /\ draws' = draws + 1 /\ UNCHANGED events
    /\ isDrawing' = FALSE
    /\ drawingPoints' = << >>
    /\ dirty' = TRUE
    /\ IF DrawingComplete(rendered.drawingPoints)
       THEN \E now \in {clock, clock + 1} :
            LET newSegment == NewSegment(ToISOString(now), rendered.drawingPoints,
                                         Len(rendered.fieldSegments) + 1)
                updatedSegments == Append(rendered.fieldSegments, newSegment)
            IN  /\ Len(rendered.fieldSegments) < MaxSegments
                /\ CanSave(updatedSegments)
                /\ clock' = now
                /\ fieldSegments' = updatedSegments
                /\ saveFieldSegments(updatedSegments)
                /\ selectedSegment' = << newSegment >>
                /\ last' = [NoOp EXCEPT !.op = "stop", !.id = newSegment.id,
                                        !.branch = "added"]
       ELSE /\ last' = [NoOp EXCEPT !.op = "stop", !.branch = "short"]
            /\ UNCHANGED << fieldSegments, inflight, selectedSegment, clock >>
    /\ UNCHANGED << issued, budget, packer, label, design, modules, selectedMapType, mounted, fetching,
                    rendered, pending, layers, map, persisted >>

\* handleClearDrawing
handleClearDrawing ==
    /\ DrawCan
    /\ rendered.isDrawing
    /\ draws' = draws + 1 /\ UNCHANGED events
    /\ drawingPoints' = << >>
    /\ dirty' = TRUE
    /\ last' = [NoOp EXCEPT !.op = "clear"]
    /\ UNCHANGED << issued, budget, packer, label, design, isDrawing, fieldSegments, selectedSegment, modules,
                    selectedMapType, mounted, fetching, rendered, pending,
                    layers, map, clock, inflight, persisted >>

\* The edits the sidebar makes through onUpdateSegment: a module is assigned
\* or removed, the setback is set.
SidebarEdits ==
    { [moduleId |-> "m1"], [moduleId |-> ""], [setback |-> 1000],
      [setback |-> 4000] }

\* DesignEditorSidebar calls onUpdateSegment(id, updates) for a listed segment.
SidebarUpdate ==
    /\ UserCan
    /\ events' = events + 1 /\ UNCHANGED draws
    /\ \E k \in 1..Len(rendered.fieldSegments), updates \in SidebarEdits :
        /\ handleUpdateSegment(rendered.fieldSegments[k].id, updates)
        /\ last' = [NoOp EXCEPT !.op = "edit", !.id = rendered.fieldSegments[k].id,
                                !.index = k]
    /\ UNCHANGED << issued, budget, packer, label, design, isDrawing, drawingPoints, modules, selectedMapType,
                    mounted, fetching, rendered, pending, layers, map, clock,
                    persisted >>

\* handleDeleteSegment(id)
handleDeleteSegment ==
    /\ UserCan
    /\ events' = events + 1 /\ UNCHANGED draws
    /\ \E k \in 1..Len(rendered.fieldSegments) :
        LET id == rendered.fieldSegments[k].id
            updatedSegments == SelectSeq(rendered.fieldSegments,
                                         LAMBDA seg : seg.id # id)
        IN  /\ CanSave(updatedSegments)
            /\ fieldSegments' = updatedSegments
            /\ saveFieldSegments(updatedSegments)
            /\ selectedSegment' = IF SelectedHasId(id) THEN Null ELSE selectedSegment
            /\ last' = [NoOp EXCEPT !.op = "delete", !.id = id, !.index = k]
    /\ dirty' = TRUE
    /\ UNCHANGED << issued, budget, packer, label, design, isDrawing, drawingPoints, modules, selectedMapType,
                    mounted, fetching, rendered, pending, layers, map, clock,
                    persisted >>

\* onSelectSegment / onSelect: setSelectedSegment(segment) for a rendered
\* segment, or setSelectedSegment(null).
SelectSegment ==
    /\ UserCan
    /\ events' = events + 1 /\ UNCHANGED draws
    /\ \E sel \in {Null} \cup
            {<< rendered.fieldSegments[k] >> : k \in 1..Len(rendered.fieldSegments)} :
        /\ sel # selectedSegment
        /\ selectedSegment' = sel
    /\ dirty' = TRUE
    /\ last' = [NoOp EXCEPT !.op = "select"]
    /\ UNCHANGED << issued, budget, packer, label, design, isDrawing, drawingPoints, fieldSegments, modules,
                    selectedMapType, mounted, fetching, rendered, pending,
                    layers, map, clock, inflight, persisted >>

\* handleMapTypeChange(mapType); closing the dropdown re-renders in any case.
handleMapTypeChange ==
    /\ UserCan
    /\ events' = events + 1 /\ UNCHANGED draws
    /\ \E mapType \in MapTypes : selectedMapType' = mapType
    /\ dirty' = TRUE
    /\ last' = [NoOp EXCEPT !.op = "maptype"]
    /\ UNCHANGED << issued, budget, packer, label, design, isDrawing, drawingPoints, fieldSegments,
                    selectedSegment, modules, mounted, fetching, rendered,
                    pending, layers, map, clock, inflight, persisted >>

\* ----------------------------------------------------- FieldSegmentLayer

\* The FieldSegmentLayers are mounted: the committed render is a 2D view.
LayersMounted == mounted /\ ~isMaptalksView

\* A copy of the points with the entry after index replaced.
NextPointReplaced(points, index, newLatLng) ==
    [points EXCEPT ![Nxt(index, Len(points))] = << newLatLng.lat, newLatLng.lng >>]

\* handleMarkerDrag's newPoints: a copy of the points with entry index
\* replaced by [newLatLng.lat, newLatLng.lng].
NewPoints(points, index, newLatLng) ==
    [points EXCEPT ![index] = << newLatLng.lat, newLatLng.lng >>]

\* handleMarkerDrag(index, newLatLng) of the layer of a rendered segment.
handleMarkerDrag ==
    /\ UserCan /\ LayersMounted
    /\ events' = events + 1 /\ UNCHANGED draws
    /\ \E k \in 1..Len(rendered.fieldSegments) :
        LET segment == rendered.fieldSegments[k]
        IN  \E index \in 1..Len(segment.points), p \in DragPoints :
                /\ handleUpdateSegment(segment.id,
                        [points |-> NewPoints(segment.points, index,
                                              [lat |-> p[1], lng |-> p[2]])])
                /\ last' = [NoOp EXCEPT !.op = "drag", !.id = segment.id,
                                        !.index = index]
    /\ UNCHANGED << issued, budget, packer, label, design, isDrawing, drawingPoints, modules, selectedMapType,
                    mounted, fetching, rendered, pending, layers, map, clock,
                    persisted >>

\* The user zooms or pans the Leaflet map: no React state changes.
MapMove ==
    /\ UserCan /\ LayersMounted
    /\ events' = events + 1 /\ UNCHANGED draws
    /\ \E v \in MapViews : v # map /\ map' = v
    /\ last' = [NoOp EXCEPT !.op = "move"]
    /\ UNCHANGED << issued, budget, packer, label, design, isDrawing, drawingPoints, fieldSegments,
                    selectedSegment, modules, selectedMapType, mounted, fetching,
                    rendered, dirty, pending, layers, clock, inflight,
                    persisted >>

\* A recompute effect without the branch for a segment that still carries a
\* layout.
BranchWithoutClear(segment, mods, area) ==
    IF FindModule(mods, segment) # << >> THEN "packer"
    ELSE IF Abs(area - segment.area) > 1 THEN "area"
    ELSE "none"

\* Which branch the recompute effect takes for a segment: the module is found
\* and the packer runs; the segment carries a layout that is cleared; only the
\* area has moved by more than 0.1; or nothing is to be done.
RecomputeBranch(segment, mods, area) ==
    IF FindModule(mods, segment) # << >> THEN "packer"
    ELSE IF segment.moduleCount > 0 \/ HasLayout(segment) THEN "clear"
    ELSE IF Abs(area - segment.area) > 1 THEN "area"
    ELSE "none"

\* The packer's result passed on with count and nameplate exchanged.
CountAndNameplateSwapped(res, area) ==
    [ area |-> area, moduleLayout |-> res.layout, moduleCount |-> res.nameplate,
      nameplate |-> res.count, azimuth |-> res.azimuth ]

\* The updates the packer branch passes to onUpdate for the packer's result.
PackerUpdates(res, area) ==
    [ area |-> area, moduleLayout |-> res.layout, moduleCount |-> res.count,
      nameplate |-> res.nameplate, azimuth |-> res.azimuth ]

\* The updates the no-module branch passes to onUpdate for a segment that
\* still carries a layout.
ClearUpdates(area) ==
    [ area |-> area, moduleLayout |-> << >>, moduleCount |-> 0, nameplate |-> 0 ]

\* The updates the recompute effect passes to onUpdate on a branch.
BranchUpdates(branch, segment, mods, area, mapView) ==
    CASE branch = "packer" ->
            PackerUpdates(calculateAdvancedModuleLayout(
                              segment, FindModule(mods, segment)[1], mapView),
                          area)
      [] branch = "clear"  -> ClearUpdates(area)
      [] OTHER             -> [area |-> area]

\* The updates the recompute effect passes to onUpdate for a segment whose
\* area has been recomputed.
RecomputeUpdates(segment, mods, area, mapView) ==
    BranchUpdates(RecomputeBranch(segment, mods, area), segment, mods, area, mapView)

\* The inset effect of a layer: it runs when segment.points or
\* segment.setback differ from those of its last run.
InsetEffect(layer, segment, mapView) ==
    IF layer.deps = << segment.points, segment.setback >> THEN layer
    ELSE [ insetPolygon |->
                IF segment.setback > 0 /\ Len(segment.points) > 2
                THEN calculateInsetPolygon(segment.points, segment.setback, mapView)
                ELSE << >>,
           deps |-> << segment.points, segment.setback >> ]

\* The shift the layer applies to a drawn position for the surface height
\* (surfaceHeight * 0.00001 degrees on both coordinates, in thousandths of a
\* foot).
SurfaceShift(segment) == (segment.surfaceHeight * 365) \div 100

\* The positions of the layer's buildable-area Polygon: the inset polygon,
\* or segment.points when the inset polygon is empty.
BuildablePositions(layer, segment) ==
    [k \in 1..Len(IF Len(layer.insetPolygon) > 0 THEN layer.insetPolygon
                  ELSE segment.points) |->
        << (IF Len(layer.insetPolygon) > 0 THEN layer.insetPolygon
            ELSE segment.points)[k][1] - SurfaceShift(segment),
           (IF Len(layer.insetPolygon) > 0 THEN layer.insetPolygon
            ELSE segment.points)[k][2] - SurfaceShift(segment) >>]

\* The effects of the next FieldSegmentLayer of the last commit run: the
\* recompute effect, with the onUpdate of that commit, then the inset effect.
RunLayerEffects(k, segment, area, branch) ==
    /\ IF branch = "none"
       THEN UNCHANGED << fieldSegments, inflight, selectedSegment, dirty >>
       ELSE handleUpdateSegment(segment.id,
                BranchUpdates(branch, segment, rendered.modules, area, map))
    /\ layers' = [layers EXCEPT ![segment.id] = InsetEffect(@, segment, map)]
    /\ issued' = IF branch \in {"clear", "area"} /\ segment.id \in DOMAIN issued
                 THEN [issued EXCEPT ![segment.id] = @ + 1]
                 ELSE issued
    /\ last' = [NoOp EXCEPT !.op = "recompute", !.id = segment.id,
                            !.index = k, !.branch = branch]

EffectsOfSegment(k, segment, area) ==
    RunLayerEffects(k, segment, area,
                    RecomputeBranch(segment, rendered.modules, area))

LayerEffects ==
    /\ pending # << >>
    /\ EffectsOfSegment(Head(pending), rendered.fieldSegments[Head(pending)],
            calculatePolygonArea(rendered.fieldSegments[Head(pending)].points, map))
    /\ pending' = Tail(pending)
    /\ UNCHANGED << budget, packer, label, design, isDrawing, drawingPoints, modules, selectedMapType,
                    mounted, fetching, rendered, map, clock, persisted, events, draws >>

Next ==
    \/ MountEffects
    \/ ModulesLoaded
    \/ Render
    \/ LayerEffects
    \/ handleStartDrawing
    \/ AddDrawingPoint
    \/ handleStopDrawing
    \/ handleClearDrawing
    \/ SidebarUpdate
    \/ handleDeleteSegment
    \/ SelectSegment
    \/ handleMapTypeChange
    \/ handleMarkerDrag
    \/ MapMove
    \/ SaveComplete
    \/ SaveError

Spec == Init /\ [][Next]_vars

\* --------------------------------------------------- drawing sessions only

\* The designs a drawing session starts from: an empty one, and one that
\* holds the triangle.
DrawDesigns == { << >>, << PlainSegment >> }

\* The editor with a user who only draws: twice as many drawing events as
\* Spec allows, and no other user event.
DrawInit ==
    /\ design \in DrawDesigns
    /\ EditorFresh
    /\ budget = [events |-> 0, draws |-> 2 * MaxDraws, inflight |-> MaxInflight]
    /\ issued = << >>
    /\ packer = NoRun
    /\ label = NoLabel

DrawNext ==
    \/ MountEffects
    \/ ModulesLoaded
    \/ Render
    \/ LayerEffects
    \/ handleStartDrawing
    \/ AddDrawingPoint
    \/ handleStopDrawing
    \/ handleClearDrawing
    \/ SaveComplete
    \/ SaveError

SpecDraw == DrawInit /\ [][DrawNext]_vars

\* --------------------------------------------------- editing sessions only

\* The editor with a user who edits the saved design and does not draw:
\* one editing event more than Spec allows.
EditInit ==
    /\ design = << StoredSegment, PlainSegment >>
    /\ EditorFresh
    /\ budget = [events |-> MaxEvents + 1, draws |-> 0, inflight |-> MaxInflight]
    /\ issued = << >>
    /\ packer = NoRun
    /\ label = NoLabel

EditNext ==
    \/ MountEffects
    \/ ModulesLoaded
    \/ Render
    \/ LayerEffects
    \/ SidebarUpdate
    \/ handleDeleteSegment
    \/ SelectSegment
    \/ handleMapTypeChange
    \/ handleMarkerDrag
    \/ MapMove
    \/ SaveComplete
    \/ SaveError

SpecEdit == EditInit /\ [][EditNext]_vars

\* ------------------------------------------- the editor with no user input

\* The stored segment under another id: a further segment of a saved design.
StoredCopy(n) ==
    Merge(StoredSegment, [id |-> ToISOString(n),
                          description |-> <<"Field Segment", n + 1>>])

\* The designs that are opened and left alone: the design of two segments,
\* and a design of three segments that all carry a module and a layout.
IdleDesigns ==
    { << StoredSegment, PlainSegment >>,
      << StoredSegment, StoredCopy(1), StoredCopy(2) >> }

\* The editor is opened on a design and the user does nothing; one save more
\* than Spec allows may be in flight, and the onUpdate calls of the
\* no-module branches are counted for every segment of the design.
IdleInit ==
    /\ design \in IdleDesigns
    /\ EditorFresh
    /\ budget = [events |-> 0, draws |-> 0, inflight |-> MaxInflight + 1]
    /\ issued = [id \in SegmentIds(design) |-> 0]
    /\ packer = NoRun
    /\ label = NoLabel

IdleNext ==
    \/ MountEffects
    \/ ModulesLoaded
    \/ Render
    \/ LayerEffects
    \/ SaveComplete
    \/ SaveError

\* The effects of the next layer of the last commit have run.
EffectsRun == pending # << >> /\ pending' = Tail(pending)

\* React commits a render that is due and runs the effects of a commit, and
\* the store answers every request.
SpecIdle ==
    /\ IdleInit /\ [][IdleNext]_vars
    /\ WF_vars(Render)
    /\ WF_pending(EffectsRun)
    /\ WF_inflight(SaveComplete \/ SaveError)

\* The editor left alone while every save succeeds: the store answers the
\* requests in any order, none with an error.
StoredNext ==
    \/ MountEffects
    \/ ModulesLoaded
    \/ Render
    \/ LayerEffects
    \/ SaveComplete

SpecStored == IdleInit /\ [][StoredNext]_vars

\* ------------------------------------------- the packer, one step at a time

\* The state of the editor, which a run of the packer leaves alone.
editorVars == << budget, issued, design, isDrawing, drawingPoints, fieldSegments,
                 selectedSegment, modules, selectedMapType, mounted, fetching,
                 rendered, dirty, pending, layers, map, clock, inflight,
                 persisted, events, draws, last >>

\* Boundaries handed to the packer: two points only, the rectangle and the
\* triangle.
PackerShapes == { << <<0, 0>>, <<0, 8000>> >>, StoredPoints, PlainPoints }

\* Setbacks: none, 1 ft, half the rectangle's width, and more than that.
PackerSetbacks == {0, 1000, 3500, 6000}

\* Racking: the default tilt, and tilts of 180 degrees, which make the row
\* pitch negative (Portrait) or zero (Landscape) for module m1.
PackerRackings ==
    { [moduleTilt |-> 10, orientation |-> "Portrait"],
      [moduleTilt |-> 180, orientation |-> "Portrait"],
      [moduleTilt |-> 180, orientation |-> "Landscape"] }

PackerAlignments == {"center", "left"}

PackerFrames == {1, 2}

PackerSegments ==
    { Merge(StoredBase,
            [ points |-> pts, setback |-> sb, moduleTilt |-> rk.moduleTilt,
              orientation |-> rk.orientation, alignment |-> al,
              frameSizeWide |-> fw ]) :
        pts \in PackerShapes, sb \in PackerSetbacks, rk \in PackerRackings,
        al \in PackerAlignments, fw \in PackerFrames }

\* Modules: the catalog's, a small one whose column pitch is below the pitch
\* floor, and one without width.
PackerModules ==
    { Catalog[1],
      [id |-> "m2", width |-> 100, length |-> 100, wattage |-> 50],
      [id |-> "m3", width |-> 0, length |-> 3000, wattage |-> 400] }

\* calculateAdvancedModuleLayout is called with a segment, a module and the
\* map.
PackerInit ==
    /\ design = << >>
    /\ EditorFresh
    /\ budget = [events |-> 0, draws |-> 0, inflight |-> 0]
    /\ issued = << >>
    /\ label = NoLabel
    /\ packer \in { [NoRun EXCEPT !.pc = "start", !.segment = seg,
                                   !.module = m, !.view = v] :
                        seg \in PackerSegments, m \in PackerModules,
                        v \in MapViews }

\* Steps 1 to 7 with the grid they arrive at: return the empty layout at
\* once, or enter the iteration.
PackerBeginOn(grid) ==
    IF NoIteration(grid, packer.segment, packer.module)
    THEN packer' = [packer EXCEPT !.pc = "done",
                                  !.result = EmptyLayout(packer.segment.azimuth)]
    ELSE packer' = [packer EXCEPT !.pc = "grid", !.grid = grid]

PackerBegin ==
    /\ packer.pc = "start"
    /\ PackerBeginOn(PackingGrid(packer.segment, packer.module, packer.view))
    /\ UNCHANGED << editorVars, label >>

\* Steps 8 and 9 for the next grid position, rows first.
PackerStep ==
    /\ packer.pc = "grid"
    /\ packer.pos < packer.grid.rows * packer.grid.cols
    /\ packer' = [packer EXCEPT
            !.pos = @ + 1,
            !.footprints = @ \o FrameFootprints(packer.grid, packer.segment,
                                                packer.pos \div packer.grid.cols,
                                                packer.pos % packer.grid.cols)]
    /\ UNCHANGED << editorVars, label >>

\* Step 10, once every grid position has been tried.
PackerFinish ==
    /\ packer.pc = "grid"
    /\ packer.pos = packer.grid.rows * packer.grid.cols
    /\ packer' = [packer EXCEPT
            !.pc = "done",
            !.result = LayoutOf(packer.footprints, packer.segment,
                                packer.module, packer.view)]
    /\ UNCHANGED << editorVars, label >>

PackerNext ==
    \/ PackerBegin
    \/ PackerStep
    \/ PackerFinish

\* The computation is synchronous: once called it runs on.
SpecPacker == PackerInit /\ [][PackerNext]_vars /\ WF_vars(PackerNext)

\* ------------------------------------------------- placing a length label

\* renderLengthMarker's offset, in pixels.
offset == 20

\* A point of the container moved by (ux, uy) / sqrt(n) pixels.
MovedPoint(q, ux, uy, n) == [x |-> q[1], y |-> q[2], ux |-> ux, uy |-> uy, n |-> n]

\* midpoint_container.add(normal.multiplyBy(side * offset)) for the edge
\* p1 -> p2: normal = (-dy, dx) / dist, or (0, 0) for an edge without length.
\* dx and dy are divided by their common divisor g, which leaves the normal
\* as it is.
OffsetAlong(mid, dx, dy, g, side) ==
    IF g = 0 THEN MovedPoint(mid, 0, 0, 1)
    ELSE MovedPoint(mid, side * offset * (-(dy \div g)), side * offset * (dx \div g),
                    (dx \div g) * (dx \div g) + (dy \div g) * (dy \div g))

offsetPoint(p1, p2, view, side) ==
    OffsetAlong(latLngToContainerPoint(getMidpoint(p1, p2), view),
                latLngToContainerPoint(p2, view)[1] - latLngToContainerPoint(p1, view)[1],
                latLngToContainerPoint(p2, view)[2] - latLngToContainerPoint(p1, view)[2],
                GCD(latLngToContainerPoint(p2, view)[1] - latLngToContainerPoint(p1, view)[1],
                    latLngToContainerPoint(p2, view)[2] - latLngToContainerPoint(p1, view)[2]),
                side)

\* A moved point in thousandths of a pixel, to the nearest thousandth.
ToMilliPoint(pt) ==
    << 1000 * pt.x + DivRound(pt.ux * 1000000, ISqrt(pt.n * 1000000)),
       1000 * pt.y + DivRound(pt.uy * 1000000, ISqrt(pt.n * 1000000)) >>

\* Boundaries whose edges get labels (thousandths of a foot): a square, a
\* triangle, a U with a notch 12 ft wide, and a square with a corner that
\* occurs twice.
LabelPolygons ==
    { << <<0, 0>>, <<0, 60000>>, <<60000, 60000>>, <<60000, 0>> >>,
      << <<0, 0>>, <<0, 60000>>, <<60000, 60000>> >>,
      << <<0, 0>>, <<0, 100000>>, <<100000, 100000>>, <<100000, 56000>>,
         <<30000, 56000>>, <<30000, 44000>>, <<100000, 44000>>, <<100000, 0>> >>,
      << <<0, 0>>, <<0, 60000>>, <<0, 60000>>, <<60000, 60000>>, <<60000, 0>> >> }

\* renderLengthMarker(p1, p2, segment.points) is called for edge i of a
\* segment on the map.
LabelInit ==
    /\ design = << >>
    /\ EditorFresh
    /\ budget = [events |-> 0, draws |-> 0, inflight |-> 0]
    /\ issued = << >>
    /\ packer = NoRun
    /\ label \in { [NoLabel EXCEPT !.pc = "start", !.polygon = poly,
                                    !.view = v, !.edge = i] :
                        poly \in LabelPolygons, v \in MapViews,
                        i \in 1..8 }
    /\ label.edge <= Len(label.polygon)

EdgeStart == label.polygon[label.edge]

EdgeEnd == label.polygon[Nxt(label.edge, Len(label.polygon))]

\* let offsetPoint = midpoint_container.add(normal.multiplyBy(offset)).
LabelOffset ==
    /\ label.pc = "start"
    /\ label' = [label EXCEPT !.pc = "offset",
                              !.candidate = offsetPoint(EdgeStart, EdgeEnd, label.view, 1)]
    /\ UNCHANGED << editorVars, packer >>

\* The test of the candidate: inside the polygon, it is replaced by the point
\* on the other side of the midpoint, which is not tested.
LabelFlip ==
    /\ label.pc = "offset"
    /\ IF /\ Len(label.polygon) > 2
          /\ isPointInPolygon(label.candidate,
                              ProjectPolygon(label.polygon, label.view))
       THEN label' = [label EXCEPT !.pc = "tested", !.flipped = TRUE,
                        !.candidate = offsetPoint(EdgeStart, EdgeEnd, label.view, -1)]
       ELSE label' = [label EXCEPT !.pc = "tested"]
    /\ UNCHANGED << editorVars, packer >>

\* const finalPosition = map.containerPointToLatLng(offsetPoint).
LabelPlace ==
    /\ label.pc = "tested"
    /\ label' = [label EXCEPT !.pc = "placed",
            !.position = containerPointToLatLng(ToMilliPoint(label.candidate),
                                                label.view)]
    /\ UNCHANGED << editorVars, packer >>

LabelNext ==
    \/ LabelOffset
    \/ LabelFlip
    \/ LabelPlace

SpecLabel == LabelInit /\ [][LabelNext]_vars

\* --------------------------------------------------------------- properties

\* A step in which the effects of the next FieldSegmentLayer run.
RecomputeStep == pending # << >> /\ pending' = Tail(pending)

\* The segment prop of the layer whose effects run next, and the area its
\* recompute effect computes.
EffectSegment == rendered.fieldSegments[Head(pending)]

EffectArea == calculatePolygonArea(EffectSegment.points, map)

\* C1: for a segment whose moduleId matches no module of the catalog, the
\* recompute effect does not run the packer; it issues at most an update of
\* the area, and when the segment still carries a layout (moduleCount > 0 or a
\* non-empty moduleLayout) the update sets moduleLayout to empty, moduleCount
\* to 0 and nameplate to 0.
C1_NoModuleSkipsPacker ==
    [][ (RecomputeStep /\ FindModule(rendered.modules, EffectSegment) = << >>) =>
            /\ last'.branch # "packer"
            /\ IF EffectSegment.moduleCount > 0 \/ HasLayout(EffectSegment)
               THEN fieldSegments' =
                        [rendered.fieldSegments EXCEPT ![Head(pending)] =
                            Merge(@, [ area |-> EffectArea, moduleLayout |-> << >>,
                                       moduleCount |-> 0, nameplate |-> 0 ])]
               ELSE \/ fieldSegments' = fieldSegments
                    \/ fieldSegments' =
                        [rendered.fieldSegments EXCEPT ![Head(pending)] =
                            Merge(@, [area |-> EffectArea])] ]_vars

\* C1 witness: the recompute effect has just cleared the layout of a segment
\* whose module was not found.
C1_Witness ==
    /\ last.op = "recompute" /\ last.branch = "clear"
    /\ \E k \in 1..Len(fieldSegments) :
        /\ fieldSegments[k].id = last.id
        /\ fieldSegments[k].moduleLayout = << >>
        /\ fieldSegments[k].moduleCount = 0
        /\ fieldSegments[k].nameplate = 0

\* The module the recompute effect finds for the segment whose effects run.
EffectModule == FindModule(rendered.modules, EffectSegment)[1]

\* The layout the segment whose effects run carries was stored by an earlier
\* recomputation for the same segment inputs and module, under some viewport.
StoredByEarlierRecompute ==
    /\ "moduleLayout" \in DOMAIN EffectSegment
    /\ \E v \in MapViews :
        /\ EffectSegment.moduleLayout =
                calculateAdvancedModuleLayout(EffectSegment, EffectModule, v).layout
        /\ EffectSegment.moduleCount =
                calculateAdvancedModuleLayout(EffectSegment, EffectModule, v).count

\* C2: the layout stored for a segment is a function of the segment and the
\* module only: a recomputation for the same segment and module as an earlier
\* one, in whatever viewport the map is now, stores the same moduleLayout,
\* moduleCount and nameplate again.
C2_LayoutIgnoresViewport ==
    [][ ( /\ RecomputeStep
          /\ FindModule(rendered.modules, EffectSegment) # << >>
          /\ StoredByEarlierRecompute ) =>
            /\ fieldSegments'[Head(pending)].moduleLayout = EffectSegment.moduleLayout
            /\ fieldSegments'[Head(pending)].moduleCount = EffectSegment.moduleCount
            /\ fieldSegments'[Head(pending)].nameplate = EffectSegment.nameplate
      ]_vars

\* Steps of the handlers the user triggers, by the operation recorded.
HandlerStep(op) ==
    (events' = events + 1 \/ draws' = draws + 1) /\ last'.op = op

\* Every segment of a list has a boundary of at least 3 points.
AllHaveThreePoints(segments) ==
    \A k \in 1..Len(segments) : Len(segments[k].points) >= 3

\* C3: every segment in fieldSegments has at least 3 points in every state
\* (the loaded design's segments have); handleStopDrawing with fewer than 3
\* drawing points adds no segment and leaves fieldSegments and selectedSegment
\* unchanged; a vertex drag never changes the number of points of a segment.
C3_AtLeastThreePoints ==
    [][ /\ AllHaveThreePoints(fieldSegments')
        /\ (HandlerStep("stop") /\ Len(rendered.drawingPoints) < 3) =>
                /\ fieldSegments' = fieldSegments
                /\ selectedSegment' = selectedSegment
        /\ HandlerStep("drag") =>
                \A k \in 1..Len(fieldSegments') :
                    /\ Len(fieldSegments'[k].points) =
                            Len(rendered.fieldSegments[k].points)
                    /\ \A j \in 1..Len(fieldSegments) :
                            fieldSegments[j].id = fieldSegments'[k].id =>
                                Len(fieldSegments'[k].points) =
                                    Len(fieldSegments[j].points)
      ]_vars

\* C3 witness: handleStopDrawing has just run on a drawing of two points, with
\* a segment in the list.
C3_Witness ==
    /\ last.op = "stop" /\ last.branch = "short"
    /\ Len(rendered.drawingPoints) = 2
    /\ Len(fieldSegments) = 2
    /\ drawingPoints = << >> /\ ~isDrawing

\* A list of segments is the list old with, in segment k, point i replaced and
\* nothing else changed: same length and order, the other segments equal, the
\* segment's other fields and other points equal.
OnlyPointReplaced(new, old, k, i) ==
    /\ Len(new) = Len(old)
    /\ \A j \in 1..Len(old) : j # k => new[j] = old[j]
    /\ DOMAIN new[k] = DOMAIN old[k]
    /\ \A f \in DOMAIN old[k] : f # "points" => new[k][f] = old[k][f]
    /\ Len(new[k].points) = Len(old[k].points)
    /\ \A j \in 1..Len(old[k].points) : j # i => new[k].points[j] = old[k].points[j]

C5_CountAndNameplate ==
    [][ (RecomputeStep /\ FindModule(rendered.modules, EffectSegment) # << >>) =>
            /\ fieldSegments'[Head(pending)].moduleCount =
                    Len(fieldSegments'[Head(pending)].moduleLayout)
            /\ fieldSegments'[Head(pending)].nameplate =
                    fieldSegments'[Head(pending)].moduleCount * EffectModule.wattage
      ]_vars

\* C5 witness: a recomputation with the module found has stored a layout of
\* three footprints.
C5_Witness ==
    /\ last.op = "recompute" /\ last.branch = "packer"
    /\ \E k \in 1..Len(fieldSegments) :
        /\ fieldSegments[k].id = last.id
        /\ Len(fieldSegments[k].moduleLayout) = 3
        /\ fieldSegments[k].moduleCount = 3
        /\ fieldSegments[k].nameplate = 3 * Catalog[1].wattage

\* The buildable region of the packer's run: the boundary inset by the
\* setback, in the planar frame of the run.
PackerRegion ==
    InsetPlanar(ProjectPolygon(packer.segment.points, packer.view),
                FeetToPixels(packer.segment.setback, packer.view))

\* A corner is contained in a region: inside it and not on its boundary.
CornerContained(corner, region) ==
    /\ ~OnBoundary(PlanarPoint(corner[1], corner[2]), region)
    /\ isPointInPolygon(PlanarPoint(corner[1], corner[2]), region)

\* The candidate footprints of the frame at grid position pos.
CandidateCells(pos) ==
    [k \in 1..(packer.segment.frameSizeUp * packer.segment.frameSizeWide) |->
        ModuleCorners(packer.grid, packer.segment,
                      pos \div packer.grid.cols, pos % packer.grid.cols,
                      (k - 1) \div packer.segment.frameSizeWide,
                      (k - 1) % packer.segment.frameSizeWide)]

\* Some corner of the frame at grid position pos lies on the boundary of the
\* region, and none of its corners lies outside of it.
TouchesBoundary(pos, region) ==
    /\ \E k \in DOMAIN CandidateCells(pos) : \E c \in 1..4 :
          OnBoundary(PlanarPoint(CandidateCells(pos)[k][c][1],
                                 CandidateCells(pos)[k][c][2]), region)
    /\ \A k \in DOMAIN CandidateCells(pos) : \A c \in 1..4 :
          \/ OnBoundary(PlanarPoint(CandidateCells(pos)[k][c][1],
                                    CandidateCells(pos)[k][c][2]), region)
          \/ isPointInPolygon(PlanarPoint(CandidateCells(pos)[k][c][1],
                                          CandidateCells(pos)[k][c][2]), region)

\* C6: every footprint of a LayoutResult has all four corners contained in the
\* buildable region (the boundary inset by the setback), a corner on the
\* region's boundary not counting as contained; a grid step whose frame has a
\* module with a corner outside or on the boundary adds no footprint at all,
\* any other step adds all the frame's modules; the result holds exactly the
\* footprints kept, in geographic coordinates.
C6_FootprintsInsideRegion ==
    [][ /\ (packer.pc = "grid" /\ packer'.pos = packer.pos + 1)
           => IF \A k \in DOMAIN CandidateCells(packer.pos) : \A c \in 1..4 :
                    CornerContained(CandidateCells(packer.pos)[k][c], PackerRegion)
              THEN packer'.footprints = packer.footprints \o CandidateCells(packer.pos)
              ELSE packer'.footprints = packer.footprints
        /\ packer'.pc = "done"
           => /\ \A k \in 1..Len(packer'.footprints) : \A c \in 1..4 :
                    CornerContained(packer'.footprints[k][c], PackerRegion)
              /\ packer'.result.layout =
                    [k \in 1..Len(packer'.footprints) |->
                        UnprojectPolygon(packer'.footprints[k], packer.view)]
              /\ packer'.result =
                    calculateAdvancedModuleLayout(packer.segment, packer.module,
                                                  packer.view)
      ]_vars

\* A finished run that kept footprints and dropped a frame only because a
\* corner lies exactly on the region's boundary.
C6_Witness ==
    /\ packer.pc = "done"
    /\ packer.result.count > 0
    /\ \E pos \in 0..(packer.pos - 1) : TouchesBoundary(pos, PackerRegion)

\* C7: for a boundary of fewer than 3 points, for an inset by the setback that
\* is empty, and for the rectangle with a setback of half its width or more,
\* the packer returns a LayoutResult with no footprints, count 0 and
\* nameplate 0.
C7_DegenerateGivesEmptyLayout ==
    (/\ packer.pc = "done"
     /\ \/ Len(packer.segment.points) < 3
        \/ calculateInsetPolygon(packer.segment.points, packer.segment.setback,
                                 packer.view) = << >>
        \/ (packer.segment.points = StoredPoints /\ 2 * packer.segment.setback >= 7000))
    => /\ packer.result.layout = << >>
       /\ packer.result.count = 0
       /\ packer.result.nameplate = 0
       /\ packer.result = EmptyLayout(packer.segment.azimuth)

\* The rectangle with a setback of half its width, a module that would fit
\* the rectangle and positive pitches: the result is empty.
C7_Witness ==
    /\ packer.pc = "done"
    /\ packer.segment.points = StoredPoints
    /\ 2 * packer.segment.setback = 7000
    /\ packer.module = Catalog[1]
    /\ packer.segment.moduleTilt = 10
    /\ packer.result.count = 0
    /\ packer.result.layout = << >>

\* The extent of the buildable region of the run along an axis of the grid.
GridExtent(axis) ==
    AxisExtent(RotatePolygon(packer.grid.region,
                             360 - (packer.segment.azimuth % 360)), axis)

\* How far a run of the packer is from its end: 2 before the grid is set up,
\* 1 during the iteration, 0 once the result is returned.
PackerRank(pc) == CASE pc = "start" -> 2 [] pc = "grid" -> 1 [] OTHER -> 0

\* C8: every run of the packer comes to an end: a step either brings the run
\* nearer its end or is a grid step that moves on by one position within the
\* rows x cols positions of an unchanged grid, and a run that has not ended
\* can take a step.  The iteration is entered with positive pitches only (a
\* zero or negative pitch ends the run with no step), and the number of grid
\* steps along each axis is at most the bounding-box extent of the buildable
\* region over the pitch floor, plus one.
C8_GridIterationTerminates ==
    /\ [][ \/ PackerRank(packer'.pc) < PackerRank(packer.pc)
           \/ /\ packer.pc = "grid" /\ packer'.pc = "grid"
              /\ packer'.grid = packer.grid
              /\ packer'.pos = packer.pos + 1
              /\ packer'.pos <= packer.grid.rows * packer.grid.cols
         ]_vars
    /\ [](packer.pc = "grid"
          => /\ packer.grid.colPitch > 0 /\ packer.grid.rowPitch > 0
             /\ packer.pos >= 0
             /\ packer.pos <= packer.grid.rows * packer.grid.cols
             /\ packer.grid.cols <= GridExtent(1) \div PitchFloor + 1
             /\ packer.grid.rows <= GridExtent(2) \div PitchFloor + 1)
    /\ [](packer.pc \in {"start", "grid", "done"})
    /\ [](packer.pc = "done"
          => \/ packer.pos = 0
             \/ (ColumnPitch(packer.segment, packer.module) > 0
                 /\ RowPitch(packer.segment, packer.module) > 0))

\* A finished run with a column pitch below the floor, which tried as many
\* columns as the cap allows.
C8_Witness ==
    /\ packer.pc = "done"
    /\ packer.pos > 0
    /\ packer.grid.colPitch < PitchFloor
    /\ packer.grid.cols = GridExtent(1) \div PitchFloor + 1
    /\ packer.pos = packer.grid.rows * packer.grid.cols

\* C9: a segment on the map whose setback is positive and whose inset effect
\* has run for its points and setback with calculateInsetPolygon returning
\* the empty polygon has no buildable area drawn: the positions of the
\* buildable-area Polygon are empty.
C9_EmptyInsetShowsNoBuildableArea ==
    \A k \in 1..Len(rendered.fieldSegments) :
        (/\ rendered.fieldSegments[k].id \in DOMAIN layers
         /\ rendered.fieldSegments[k].setback > 0
         /\ Len(rendered.fieldSegments[k].points) > 2
         /\ layers[rendered.fieldSegments[k].id].deps =
                << rendered.fieldSegments[k].points, rendered.fieldSegments[k].setback >>
         /\ layers[rendered.fieldSegments[k].id].insetPolygon = << >>)
        => BuildablePositions(layers[rendered.fieldSegments[k].id],
                              rendered.fieldSegments[k]) = << >>

\* C10: the label of an edge of a polygon of more than 2 points is placed at
\* the container point of the edge's midpoint moved by 20 pixels along the
\* edge normal, to one side or the other, and the placed label is not inside
\* the polygon.
C10_LabelOutsidePolygon ==
    (label.pc = "placed" /\ Len(label.polygon) > 2)
    => /\ << label.candidate.x, label.candidate.y >> =
            latLngToContainerPoint(getMidpoint(EdgeStart, EdgeEnd), label.view)
       /\ label.candidate.ux * label.candidate.ux
            + label.candidate.uy * label.candidate.uy
          = offset * offset * label.candidate.n
       /\ label.candidate \in { offsetPoint(EdgeStart, EdgeEnd, label.view, 1),
                                 offsetPoint(EdgeStart, EdgeEnd, label.view, -1) }
       /\ ~isPointInPolygon(label.candidate,
                            ProjectPolygon(label.polygon, label.view))
       /\ label.position =
            containerPointToLatLng(ToMilliPoint(label.candidate), label.view)

C12_NoDrawingIn3DView ==
    /\ isDrawing => selectedMapType # "maptalk-satellite"
    /\ rendered.isDrawing => rendered.selectedMapType # "maptalk-satellite"

UpdateIssued ==
    issued' = [issued EXCEPT ![EffectSegment.id] = @ + 1]

\* C14 (first part): for a segment whose module is not found, the recompute
\* effect calls onUpdate exactly when the segment has moduleCount > 0 or a
\* non-empty moduleLayout, or the computed area differs from the stored area
\* by more than 0.1 sq ft.
C14_UpdateOnlyWhenNeeded ==
    [][ (RecomputeStep /\ FindModule(rendered.modules, EffectSegment) = << >>)
        => IF \/ EffectSegment.moduleCount > 0
              \/ HasLayout(EffectSegment)
              \/ Abs(EffectArea - EffectSegment.area) > 1
           THEN /\ UpdateIssued
                /\ dirty'
                /\ fieldSegments' \in inflight'
           ELSE UNCHANGED << issued, fieldSegments, inflight, dirty >>
      ]_vars

\* C14: the first part, and with no user input the no-module branches of the
\* recompute effect call onUpdate at most twice for a segment.
C14_AtMostTwoUpdates ==
    /\ C14_UpdateOnlyWhenNeeded
    /\ [](\A id \in DOMAIN issued : issued[id] <= 2)

\* C15: with no user input the editor comes to rest: from some point on no
\* state update is waiting for a render, no effect is waiting to run and no
\* save is in flight.
C15_EditorComesToRest ==
    <>[](~dirty /\ pending = << >> /\ inflight = {})

\* C16: a step that runs handleUpdateSegment for a segment (a recompute
\* effect, a vertex drag or a sidebar edit) leaves every other segment of the
\* current fieldSegments as it is, so that an update made for another segment
\* just before is still there.
C16_NoUpdateIsLost ==
    [][ (last'.op \in {"recompute", "drag", "edit"} /\ last' # last)
        => /\ Len(fieldSegments') = Len(fieldSegments)
           /\ \A j \in 1..Len(fieldSegments) :
                 fieldSegments[j].id # last'.id
                    => fieldSegments'[j] = fieldSegments[j]
      ]_vars

\* A step of the mounted editor that changes fieldSegments (a create, an
\* update or a delete) sends a save of the new list.
SaveIssued ==
    [][ (mounted /\ fieldSegments' # fieldSegments) => fieldSegments' \in inflight' ]_vars

\* C17: every create, update or delete sends a save of the new list, and
\* whenever no save is outstanding, all of them having succeeded in whatever
\* order, the persisted field_segments equal the fieldSegments in memory.
C17_PersistedEqualsMemory ==
    SaveIssued /\ [](mounted /\ inflight = {} => persisted = fieldSegments)

\* C18: the segments of fieldSegments have pairwise distinct ids, also after
\* two drawings completed at the same reading of the clock.
C18_SegmentIdsDistinct ==
    \A i, j \in 1..Len(fieldSegments) :
        fieldSegments[i].id = fieldSegments[j].id => i = j

====
